---- MODULE Spec2Model ----
(***************************************************************************)
(* Model of the ClickHouse query builder (packages/db clickhouse-query,    *)
(* here src/unnamed/part_000), of the cohort pipeline of the chart router  *)
(* (src/packages/trpc/src/routers/chart.ts) and of the cacheable wrapper   *)
(* (src/packages/redis/cachable.ts).                                       *)
(*                                                                         *)
(* SQL text is modelled by TLA+ strings built with \o exactly where the    *)
(* code concatenates or interpolates.  A JavaScript string that the code   *)
(* inspects character by character (a value handed to escape, a date       *)
(* handed to utc) is a sequence of one-character strings.                  *)
(***************************************************************************)
EXTENDS Integers, Sequences, FiniteSets, TLC

VARIABLES q, nested, grp, trace, thrown, rendered, clientQueries,
          cohortIn, cohortSql, cohortOut, cache

vars == <<q, nested, grp, trace, thrown, rendered, clientQueries,
          cohortIn, cohortSql, cohortOut, cache>>

(***************************************************************************)
(* Bounds of the exploration.                                              *)
(***************************************************************************)
MaxCalls == 3
MaxIfCalls == 4
MaxWhereCalls == 4
MaxGroupCalls == 5
MaxErrCalls == 2
MaxCohorts == 2
MaxJoinCalls == 4
MaxCteCalls == 4
MaxDiffInterval == 2
MaxWhenCalls == 3
MaxCacheCalls == 3

(***************************************************************************)
(* Generic sequence helpers (Array.prototype.map / join).                  *)
(***************************************************************************)
RECURSIVE join(_, _)
join(strs, sep) ==
    IF Len(strs) = 0 THEN ""
    ELSE IF Len(strs) = 1 THEN strs[1]
    ELSE strs[1] \o sep \o join(Tail(strs), sep)

Range(s) == {s[i] : i \in DOMAIN s}

(***************************************************************************)
(* JavaScript values of type SqlParam | undefined.  A string keeps its     *)
(* characters, a number its integer, an array its items.                   *)
(***************************************************************************)
Undefined == [kind |-> "undefined", n |-> 0, chars |-> <<>>, items |-> <<>>]
Null == [kind |-> "null", n |-> 0, chars |-> <<>>, items |-> <<>>]
Num(n) == [kind |-> "number", n |-> n, chars |-> <<>>, items |-> <<>>]
Str(chars) == [kind |-> "string", n |-> 0, chars |-> chars, items |-> <<>>]
Bool(b) == [kind |-> "boolean", n |-> IF b THEN 1 ELSE 0, chars |-> <<>>, items |-> <<>>]
DateValue(isoChars) == [kind |-> "date", n |-> 0, chars |-> isoChars, items |-> <<>>]
Arr(items) == [kind |-> "array", n |-> 0, chars |-> <<>>, items |-> items]

isArray(value) == value.kind = "array"

(***************************************************************************)
(* String.prototype.replace(ch, by) with a string pattern replaces the     *)
(* first occurrence only; slice(0, n) keeps at most the first n chars.     *)
(***************************************************************************)
RECURSIVE replaceFirst(_, _, _)
replaceFirst(chars, ch, by) ==
    IF chars = <<>> THEN <<>>
    ELSE IF Head(chars) = ch THEN <<by>> \o Tail(chars)
    ELSE <<Head(chars)>> \o replaceFirst(Tail(chars), ch, by)

slice(chars, n) == SubSeq(chars, 1, IF Len(chars) < n THEN Len(chars) ELSE n)

(***************************************************************************)
(* sqlstring.escape: undefined and null give NULL, booleans true/false,    *)
(* numbers their decimal text, strings are wrapped in single quotes with   *)
(* quote and backslash characters backslash-escaped.                       *)
(***************************************************************************)
escapeChar(c) ==
    IF c = "'" THEN "\\'"
    ELSE IF c = "\\" THEN "\\\\"
    ELSE IF c = "\"" THEN "\\\""
    ELSE c

escapeString(chars) ==
    "'" \o join([i \in DOMAIN chars |-> escapeChar(chars[i])], "") \o "'"

escape(value) ==
    CASE value.kind \in {"undefined", "null"} -> "NULL"
      [] value.kind = "boolean" -> IF value.n = 1 THEN "true" ELSE "false"
      [] value.kind = "number" -> ToString(value.n)
      [] OTHER -> escapeString(value.chars)

(***************************************************************************)
(* Query.escapeValue                                                       *)
(***************************************************************************)
escapeScalar(value) ==
    IF value.kind = "null" THEN "NULL"
    ELSE IF value.kind = "date"
         THEN escape(Str(replaceFirst(slice(value.chars, 19), "T", " ")))
    ELSE escape(value)

escapeValue(value) ==
    IF value.kind = "null" THEN "NULL"
    ELSE IF isArray(value)
         THEN "(" \o join([i \in DOMAIN value.items |->
                              escapeScalar(value.items[i])], ", ") \o ")"
    ELSE escapeScalar(value)

(***************************************************************************)
(* Query.buildCondition: the fragment, or threw = TRUE when the code       *)
(* throws.  A column is a string or an Expression; both render as their    *)
(* text.                                                                   *)
(***************************************************************************)
Col(text) == [isExpression |-> FALSE, text |-> text]
Expr(sql) == [isExpression |-> TRUE, text |-> sql]
columnStr(column) == column.text

Returned(condition) == [threw |-> FALSE, condition |-> condition]
Threw == [threw |-> TRUE, condition |-> ""]

buildConditionDefault(column, operator, value) ==
    Returned(columnStr(column) \o " " \o operator \o " " \o escapeValue(value))

(* mutant: BETWEEN reading the first two items of a longer array *)
buildConditionTruncating(column, operator, value) ==
    CASE operator = "IS NULL" -> Returned(columnStr(column) \o " IS NULL")
      [] operator = "IS NOT NULL" -> Returned(columnStr(column) \o " IS NOT NULL")
      [] operator = "BETWEEN" ->
            IF isArray(value) /\ Len(value.items) >= 2
            THEN Returned(columnStr(column) \o " BETWEEN "
                          \o escapeValue(value.items[1]) \o " AND "
                          \o escapeValue(value.items[2]))
            ELSE Threw
      [] operator \in {"IN", "NOT IN"} ->
            IF ~isArray(value) THEN Threw
            ELSE Returned(columnStr(column) \o " " \o operator \o " "
                          \o escapeValue(value))
      [] OTHER -> buildConditionDefault(column, operator, value)

buildCondition(column, operator, value) ==
    CASE operator = "IS NULL" -> Returned(columnStr(column) \o " IS NULL")
      [] operator = "IS NOT NULL" -> Returned(columnStr(column) \o " IS NOT NULL")
      [] operator = "BETWEEN" ->
            IF isArray(value) /\ Len(value.items) = 2
            THEN Returned(columnStr(column) \o " BETWEEN "
                          \o escapeValue(value.items[1]) \o " AND "
                          \o escapeValue(value.items[2]))
            ELSE Threw
      [] operator \in {"IN", "NOT IN"} ->
            IF ~isArray(value) THEN Threw
            ELSE Returned(columnStr(column) \o " " \o operator \o " "
                          \o escapeValue(value))
      [] OTHER -> buildConditionDefault(column, operator, value)

(***************************************************************************)
(* The state of a Query (its private fields).  An optional field is a      *)
(* sequence of length 0 (undefined) or 1.  _settings keeps the insertion   *)
(* order of its keys, as Object.assign / Object.entries do.  A CTE body is *)
(* a string or a reference to the nested builder.                          *)
(***************************************************************************)
NewQuery ==
    [_select |-> <<>>, _from |-> <<>>, _where |-> <<>>, _groupBy |-> <<>>,
     _having |-> <<>>, _orderBy |-> <<>>, _limit |-> <<>>, _offset |-> <<>>,
     _final |-> FALSE, _settings |-> <<>>, _ctes |-> <<>>, _joins |-> <<>>,
     _skipNext |-> FALSE]

Ok(state) == [state |-> state, threw |-> FALSE]
Raise(state) == [state |-> state, threw |-> TRUE]

WhereCondition(condition, operator, isGroup) ==
    [condition |-> condition, operator |-> operator, isGroup |-> isGroup]

(* Query.select *)
select(qq, columns) ==
    IF qq._skipNext THEN Ok(qq)
    ELSE Ok([qq EXCEPT !._select = columns])

(* Query.from *)
from(qq, table, final) ==
    Ok([qq EXCEPT !._from = <<table>>, !._final = final])

(* mutant: where joined by OR *)
whereOr(qq, column, operator, value) ==
    IF qq._skipNext THEN Ok(qq)
    ELSE LET condition == buildCondition(column, operator, value)
         IN  IF condition.threw THEN Raise(qq)
             ELSE Ok([qq EXCEPT !._where =
                        Append(@, WhereCondition(condition.condition, "OR", FALSE))])

(* Query.where *)
where(qq, column, operator, value) ==
    IF qq._skipNext THEN Ok(qq)
    ELSE LET condition == buildCondition(column, operator, value)
         IN  IF condition.threw THEN Raise(qq)
             ELSE Ok([qq EXCEPT !._where =
                        Append(@, WhereCondition(condition.condition, "AND", FALSE))])

(* Query.andWhere *)
andWhere(qq, column, operator, value) ==
    LET condition == buildCondition(column, operator, value)
    IN  IF condition.threw THEN Raise(qq)
        ELSE Ok([qq EXCEPT !._where =
                   Append(@, WhereCondition(condition.condition, "AND", FALSE))])

(* Query.orWhere *)
orWhere(qq, column, operator, value) ==
    LET condition == buildCondition(column, operator, value)
    IN  IF condition.threw THEN Raise(qq)
        ELSE Ok([qq EXCEPT !._where =
                   Append(@, WhereCondition(condition.condition, "OR", FALSE))])

(* Query.groupBy *)
groupBy(qq, columns) ==
    Ok([qq EXCEPT !._groupBy = [i \in DOMAIN columns |-> columnStr(columns[i])]])

(* Query.having / andHaving / orHaving *)
pushHaving(qq, joiner, column, operator, value) ==
    LET condition == buildCondition(column, operator, value)
    IN  IF condition.threw THEN Raise(qq)
        ELSE Ok([qq EXCEPT !._having =
                   Append(@, [condition |-> condition.condition, operator |-> joiner])])

having(qq, column, operator, value) == pushHaving(qq, "AND", column, operator, value)
andHaving(qq, column, operator, value) == pushHaving(qq, "AND", column, operator, value)
orHaving(qq, column, operator, value) == pushHaving(qq, "OR", column, operator, value)

(* mutant: orderBy without the skip check *)
orderByUnskipped(qq, column, direction) ==
    Ok([qq EXCEPT !._orderBy = Append(@, [column |-> column, direction |-> direction])])

(* Query.orderBy *)
orderBy(qq, column, direction) ==
    IF qq._skipNext THEN Ok(qq)
    ELSE Ok([qq EXCEPT !._orderBy = Append(@, [column |-> column, direction |-> direction])])

(* Query.limit: offset is <<>> when the argument is omitted *)
limit(qq, n, offset) ==
    Ok([qq EXCEPT !._limit = <<n>>,
                  !._offset = IF offset # <<>> THEN offset ELSE @])

(* Query.settings: Object.assign(this._settings, settings), one key at a time *)
assignKey(entries, key, value) ==
    IF \E i \in DOMAIN entries : entries[i].key = key
    THEN [i \in DOMAIN entries |->
            IF entries[i].key = key THEN [key |-> key, value |-> value] ELSE entries[i]]
    ELSE Append(entries, [key |-> key, value |-> value])

RECURSIVE assign(_, _)
assign(entries, settings) ==
    IF settings = <<>> THEN entries
    ELSE assign(assignKey(entries, Head(settings).key, Head(settings).value),
                Tail(settings))

settings(qq, map) == Ok([qq EXCEPT !._settings = assign(@, map)])

(* Query.with *)
StringBody(sql) == [isQuery |-> FALSE, sql |-> sql]
NestedBody == [isQuery |-> TRUE, sql |-> ""]
with(qq, name, query) == Ok([qq EXCEPT !._ctes = Append(@, [name |-> name, query |-> query])])

(* Query.joinWithType and the five join methods *)
joinWithType(qq, type, table, condition, final) ==
    Ok([qq EXCEPT !._joins = Append(@, [type |-> type, table |-> table,
                                       condition |-> condition, final |-> final])])

innerJoin(qq, table, condition, final) == joinWithType(qq, "INNER", table, condition, final)
leftJoin(qq, table, condition, final) == joinWithType(qq, "LEFT", table, condition, final)
rightJoin(qq, table, condition, final) == joinWithType(qq, "RIGHT", table, condition, final)
fullJoin(qq, table, condition, final) == joinWithType(qq, "FULL", table, condition, final)
crossJoin(qq, table, final) == joinWithType(qq, "CROSS", table, Col(""), final)

(* Query._addWhereCondition *)
addWhereCondition(qq, condition) == Ok([qq EXCEPT !._where = Append(@, condition)])

(* mutant: endIf leaving one level of a nested if, never the outermost *)
endIfNested(qq) == Ok(qq)

(* Query.if / Query.endIf *)
if(qq, condition) == Ok([qq EXCEPT !._skipNext = ~condition])
endIf(qq) == Ok([qq EXCEPT !._skipNext = FALSE])

(***************************************************************************)
(* Rendering.                                                              *)
(***************************************************************************)
(* mutant: every condition prefixed by its joiner, the first included *)
buildWhereConditionsAllJoined(conditions) ==
    join([i \in DOMAIN conditions |->
            LET w == conditions[i]
                condition == IF w.isGroup THEN "(" \o w.condition \o ")" ELSE w.condition
            IN  w.operator \o " " \o condition],
         " ")

(* Query.buildWhereConditions *)
buildWhereConditions(conditions) ==
    join([i \in DOMAIN conditions |->
            LET w == conditions[i]
                condition == IF w.isGroup THEN "(" \o w.condition \o ")" ELSE w.condition
            IN  IF i = 1 THEN condition ELSE w.operator \o " " \o condition],
         " ")

truthy(str) == str # ""

(* buildQuery, the WITH clause: nestedSql is what the nested builder's     *)
(* toSQL() returns when a CTE body is that builder                         *)
(* mutant: a nested body embedded as it was when the builder was made *)
cteStatementsSnapshot(qq, nestedSql) ==
    [i \in DOMAIN qq._ctes |->
        LET cte == qq._ctes[i]
            queryStr == IF cte.query.isQuery THEN "SELECT *" ELSE cte.query.sql
        IN  cte.name \o " AS (" \o queryStr \o ")"]

cteStatements(qq, nestedSql) ==
    [i \in DOMAIN qq._ctes |->
        LET cte == qq._ctes[i]
            queryStr == IF cte.query.isQuery THEN nestedSql ELSE cte.query.sql
        IN  cte.name \o " AS (" \o queryStr \o ")"]

withParts(qq, nestedSql) ==
    IF Len(qq._ctes) > 0
    THEN <<"WITH " \o join(cteStatements(qq, nestedSql), ", ")>>
    ELSE <<>>

selectParts(qq) ==
    IF Len(qq._select) > 0
    THEN <<"SELECT", join([i \in DOMAIN qq._select |-> columnStr(qq._select[i])], ", ")>>
    ELSE <<"SELECT *">>

(* mutant: every join rendered with an ON part *)
joinPartAlwaysOn(j) ==
    LET finalClause == IF j.final THEN " FINAL" ELSE ""
    IN  j.type \o " JOIN " \o j.table \o finalClause \o " ON " \o columnStr(j.condition)

joinPart(j) ==
    LET finalClause == IF j.final THEN " FINAL" ELSE ""
        conditionStr == IF j.condition.isExpression \/ truthy(j.condition.text)
                        THEN " ON " \o columnStr(j.condition)
                        ELSE ""
    IN  j.type \o " JOIN " \o j.table \o finalClause \o conditionStr

fromParts(qq) ==
    IF qq._from # <<>> /\ truthy(qq._from[1])
    THEN <<"FROM " \o qq._from[1] \o (IF qq._final THEN " FINAL" ELSE "")>>
         \o [i \in DOMAIN qq._joins |-> joinPart(qq._joins[i])]
    ELSE <<>>

whereParts(qq) ==
    IF Len(qq._where) > 0 THEN <<"WHERE", buildWhereConditions(qq._where)>> ELSE <<>>

groupByParts(qq) ==
    IF Len(qq._groupBy) > 0 THEN <<"GROUP BY", join(qq._groupBy, ", ")>> ELSE <<>>

havingParts(qq) ==
    IF Len(qq._having) > 0
    THEN <<"HAVING",
           join([i \in DOMAIN qq._having |->
                   LET h == qq._having[i]
                   IN  IF i = 1 THEN h.condition ELSE h.operator \o " " \o h.condition],
                " ")>>
    ELSE <<>>

orderByParts(qq) ==
    IF Len(qq._orderBy) > 0
    THEN <<"ORDER BY",
           join([i \in DOMAIN qq._orderBy |->
                   columnStr(qq._orderBy[i].column) \o " " \o qq._orderBy[i].direction],
                ", ")>>
    ELSE <<>>

limitParts(qq) ==
    IF qq._limit # <<>>
    THEN <<"LIMIT " \o ToString(qq._limit[1])>>
         \o (IF qq._offset # <<>> THEN <<"OFFSET " \o ToString(qq._offset[1])>> ELSE <<>>)
    ELSE <<>>

settingsParts(qq) ==
    IF Len(qq._settings) > 0
    THEN <<"SETTINGS " \o join([i \in DOMAIN qq._settings |->
                                  qq._settings[i].key \o " = " \o qq._settings[i].value],
                               ", ")>>
    ELSE <<>>

queryParts(qq, nestedSql) ==
    withParts(qq, nestedSql) \o selectParts(qq) \o fromParts(qq) \o whereParts(qq)
    \o groupByParts(qq) \o havingParts(qq) \o orderByParts(qq) \o limitParts(qq)
    \o settingsParts(qq)

(* Query.buildQuery; the CTEs of the nested builder itself are strings *)
buildQuery(qq, nq) ==
    join(queryParts(qq, join(queryParts(nq, ""), " ")), " ")

(* mutant: a render that ends the conditional block *)
toSQLClearingSkip(qq, nq) ==
    [state |-> [qq EXCEPT !._skipNext = FALSE], sql |-> buildQuery(qq, nq)]

(* Query.toSQL: the builder after the call and the string returned *)
toSQL(qq, nq) == [state |-> qq, sql |-> buildQuery(qq, nq)]

(* Query.execute: the builder after the call and the query sent to the client *)
execute(qq, nq) == [state |-> qq, query |-> buildQuery(qq, nq)]

(***************************************************************************)
(* WhereGroupBuilder: the parent is always the outer builder.  created is  *)
(* FALSE until whereGroup() / orWhereGroup() constructs one.               *)
(***************************************************************************)
NoGroup == [created |-> FALSE, groupOperator |-> "AND", conditions |-> <<>>]

(* Query.whereGroup / Query.orWhereGroup *)
whereGroup == [created |-> TRUE, groupOperator |-> "AND", conditions |-> <<>>]
orWhereGroup == [created |-> TRUE, groupOperator |-> "OR", conditions |-> <<>>]

(* WhereGroupBuilder.where / andWhere / orWhere *)
groupPush(g, joiner, column, operator, value) ==
    LET condition == buildCondition(column, operator, value)
    IN  IF condition.threw THEN Raise(g)
        ELSE Ok([g EXCEPT !.conditions =
                   Append(@, WhereCondition(condition.condition, joiner, FALSE))])

groupWhere(g, column, operator, value) == groupPush(g, "AND", column, operator, value)
groupAndWhere(g, column, operator, value) == groupPush(g, "AND", column, operator, value)
groupOrWhere(g, column, operator, value) == groupPush(g, "OR", column, operator, value)

(* mutant: end() handing its conditions to the parent one by one *)
endFlattening(g, qq) == Ok([qq EXCEPT !._where = @ \o g.conditions])

(* WhereGroupBuilder.end: the condition handed to the parent *)
groupCondition(g) ==
    join([i \in DOMAIN g.conditions |->
            IF i = 1 THEN g.conditions[i].condition
            ELSE g.conditions[i].operator \o " " \o g.conditions[i].condition],
         " ")

end(g, qq) == addWhereCondition(qq, WhereCondition(groupCondition(g), g.groupOperator, TRUE))

(***************************************************************************)
(* History: trace holds the calls made so far, each with its arguments.    *)
(***************************************************************************)
Within(bound) == Len(trace) < bound

Record(call) == trace' = Append(trace, call)

Call(op) ==
    [op |-> op, column |-> Col(""), operator |-> "", value |-> Undefined,
     columns |-> <<>>, flag |-> FALSE, table |-> "", n |-> 0, offset |-> <<>>,
     map |-> <<>>, body |-> StringBody(""), callback |-> <<>>, returns |-> "",
     invoked |-> 0, returned |-> ""]

Cond(column, operator, value) ==
    [column |-> column, operator |-> operator, value |-> value]

CondCall(op, c) ==
    [Call(op) EXCEPT !.column = c.column, !.operator = c.operator, !.value = c.value]
ColumnsCall(op, columns) == [Call(op) EXCEPT !.columns = columns]
FromCall(table, final) == [Call("from") EXCEPT !.table = table, !.flag = final]
OrderByCall(column, direction) ==
    [Call("orderBy") EXCEPT !.column = column, !.operator = direction]
LimitCall(n, offset) == [Call("limit") EXCEPT !.n = n, !.offset = offset]
SettingsCall(map) == [Call("settings") EXCEPT !.map = map]
WithCall(name, body) == [Call("with") EXCEPT !.table = name, !.body = body]
JoinCall(op, table, condition, final) ==
    [Call(op) EXCEPT !.table = table, !.column = condition, !.flag = final]
IfCall(condition) == [Call("if") EXCEPT !.flag = condition]

NoCall == Call("new")
last == IF trace = <<>> THEN NoCall ELSE trace[Len(trace)]
prev == IF Len(trace) < 2 THEN NoCall ELSE trace[Len(trace) - 1]
ops == [i \in DOMAIN trace |-> trace[i].op]

(***************************************************************************)
(* A call on the outer builder or on its group builder: the builder and    *)
(* the group builder after the call, and whether the call threw.           *)
(***************************************************************************)
OnQuery(g, result) == [q |-> result.state, grp |-> g, threw |-> result.threw]
OnGroup(qq, result) == [q |-> qq, grp |-> result.state, threw |-> result.threw]

Apply(call, qq, g, nq) ==
    CASE call.op = "select" -> OnQuery(g, select(qq, call.columns))
      [] call.op = "from" -> OnQuery(g, from(qq, call.table, call.flag))
      [] call.op = "where" ->
            OnQuery(g, where(qq, call.column, call.operator, call.value))
      [] call.op = "andWhere" ->
            OnQuery(g, andWhere(qq, call.column, call.operator, call.value))
      [] call.op = "orWhere" ->
            OnQuery(g, orWhere(qq, call.column, call.operator, call.value))
      [] call.op = "groupBy" -> OnQuery(g, groupBy(qq, call.columns))
      [] call.op = "having" ->
            OnQuery(g, having(qq, call.column, call.operator, call.value))
      [] call.op = "andHaving" ->
            OnQuery(g, andHaving(qq, call.column, call.operator, call.value))
      [] call.op = "orHaving" ->
            OnQuery(g, orHaving(qq, call.column, call.operator, call.value))
      [] call.op = "orderBy" -> OnQuery(g, orderBy(qq, call.column, call.operator))
      [] call.op = "limit" -> OnQuery(g, limit(qq, call.n, call.offset))
      [] call.op = "settings" -> OnQuery(g, settings(qq, call.map))
      [] call.op = "with" -> OnQuery(g, with(qq, call.table, call.body))
      [] call.op = "join" -> OnQuery(g, innerJoin(qq, call.table, call.column, call.flag))
      [] call.op = "leftJoin" -> OnQuery(g, leftJoin(qq, call.table, call.column, call.flag))
      [] call.op = "rightJoin" -> OnQuery(g, rightJoin(qq, call.table, call.column, call.flag))
      [] call.op = "fullJoin" -> OnQuery(g, fullJoin(qq, call.table, call.column, call.flag))
      [] call.op = "crossJoin" -> OnQuery(g, crossJoin(qq, call.table, call.flag))
      [] call.op = "if" -> OnQuery(g, if(qq, call.flag))
      [] call.op = "endIf" -> OnQuery(g, endIf(qq))
      [] call.op = "toSQL" -> OnQuery(g, Ok(toSQL(qq, nq).state))
      [] call.op = "execute" -> OnQuery(g, Ok(execute(qq, nq).state))
      [] call.op = "whereGroup" -> OnGroup(qq, Ok(whereGroup))
      [] call.op = "orWhereGroup" -> OnGroup(qq, Ok(orWhereGroup))
      [] call.op = "group.where" ->
            OnGroup(qq, groupWhere(g, call.column, call.operator, call.value))
      [] call.op = "group.andWhere" ->
            OnGroup(qq, groupAndWhere(g, call.column, call.operator, call.value))
      [] call.op = "group.orWhere" ->
            OnGroup(qq, groupOrWhere(g, call.column, call.operator, call.value))
      [] call.op = "group.end" -> OnQuery(g, end(g, qq))

GroupOps == {"group.where", "group.andWhere", "group.orWhere", "group.end"}

(* the string toSQL() returned, the client queries issued by execute() *)
Output(call, qq, nq) ==
    [rendered |-> IF call.op = "toSQL" THEN toSQL(qq, nq).sql ELSE rendered,
     clientQueries |-> IF call.op = "execute" THEN clientQueries + 1 ELSE clientQueries]

Step(call) ==
    /\ call.op \in GroupOps => grp.created
    /\ q' = Apply(call, q, grp, nested).q
    /\ grp' = Apply(call, q, grp, nested).grp
    /\ thrown' = Apply(call, q, grp, nested).threw
    /\ rendered' = Output(call, q, nested).rendered
    /\ clientQueries' = Output(call, q, nested).clientQueries
    /\ Record(call)
    /\ UNCHANGED <<nested, cohortIn, cohortSql, cohortOut, cache>>

Select(b, lists) ==
    /\ Within(b)
    /\ \E columns \in lists :
         Step(ColumnsCall("select", columns))

From(b, tables, finals) ==
    /\ Within(b)
    /\ \E table \in tables, final \in finals :
         Step(FromCall(table, final))

Where(b, conds) ==
    /\ Within(b)
    /\ \E c \in conds :
         Step(CondCall("where", c))

AndWhere(b, conds) ==
    /\ Within(b)
    /\ \E c \in conds :
         Step(CondCall("andWhere", c))

OrWhere(b, conds) ==
    /\ Within(b)
    /\ \E c \in conds :
         Step(CondCall("orWhere", c))

GroupBy(b, lists) ==
    /\ Within(b)
    /\ \E columns \in lists :
         Step(ColumnsCall("groupBy", columns))

Having(b, conds) ==
    /\ Within(b)
    /\ \E c \in conds :
         Step(CondCall("having", c))

AndHaving(b, conds) ==
    /\ Within(b)
    /\ \E c \in conds :
         Step(CondCall("andHaving", c))

OrHaving(b, conds) ==
    /\ Within(b)
    /\ \E c \in conds :
         Step(CondCall("orHaving", c))

OrderBy(b, columns, directions) ==
    /\ Within(b)
    /\ \E column \in columns, direction \in directions :
         Step(OrderByCall(column, direction))

Limit(b, limits, offsets) ==
    /\ Within(b)
    /\ \E n \in limits, offset \in offsets :
         Step(LimitCall(n, offset))

Settings(b, maps) ==
    /\ Within(b)
    /\ \E map \in maps :
         Step(SettingsCall(map))

With(b, names, bodies) ==
    /\ Within(b)
    /\ \E name \in names, body \in bodies :
         Step(WithCall(name, body))

Join(b, tables, conds, finals) ==
    /\ Within(b)
    /\ \E table \in tables, condition \in conds, final \in finals :
         Step(JoinCall("join", table, condition, final))

LeftJoin(b, tables, conds, finals) ==
    /\ Within(b)
    /\ \E table \in tables, condition \in conds, final \in finals :
         Step(JoinCall("leftJoin", table, condition, final))

RightJoin(b, tables, conds, finals) ==
    /\ Within(b)
    /\ \E table \in tables, condition \in conds, final \in finals :
         Step(JoinCall("rightJoin", table, condition, final))

FullJoin(b, tables, conds, finals) ==
    /\ Within(b)
    /\ \E table \in tables, condition \in conds, final \in finals :
         Step(JoinCall("fullJoin", table, condition, final))

CrossJoin(b, tables, finals) ==
    /\ Within(b)
    /\ \E table \in tables, final \in finals :
         Step(JoinCall("crossJoin", table, Col(""), final))

If(b) ==
    /\ Within(b)
    /\ \E condition \in BOOLEAN :
         Step(IfCall(condition))

EndIf(b) ==
    /\ Within(b)
    /\ Step(Call("endIf"))

ToSQL(b) ==
    /\ Within(b)
    /\ Step(Call("toSQL"))

Execute(b) ==
    /\ Within(b)
    /\ Step(Call("execute"))

WhereGroup(b) ==
    /\ Within(b)
    /\ Step(Call("whereGroup"))

OrWhereGroup(b) ==
    /\ Within(b)
    /\ Step(Call("orWhereGroup"))

GroupWhere(b, conds) ==
    /\ Within(b)
    /\ \E c \in conds :
         Step(CondCall("group.where", c))

GroupAndWhere(b, conds) ==
    /\ Within(b)
    /\ \E c \in conds :
         Step(CondCall("group.andWhere", c))

GroupOrWhere(b, conds) ==
    /\ Within(b)
    /\ \E c \in conds :
         Step(CondCall("group.orWhere", c))

GroupEnd(b) ==
    /\ Within(b)
    /\ Step(Call("group.end"))

(***************************************************************************)
(* Initial state: a builder fresh from createQuery(client), no group       *)
(* builder, no cohort request.                                             *)
(***************************************************************************)
NoRequest == [requested |-> FALSE]
NoStatement == [generated |-> FALSE]
NoResult == [done |-> FALSE, rows |-> <<>>]

(***************************************************************************)
(* cacheable (packages/redis).  The store maps a key to <<text>>, or to    *)
(* <<>> when the key is absent (get gives null).  JSON.stringify gives no  *)
(* text for undefined; JSON.parse gives back the value a text was made     *)
(* from and throws on any other text.                                      *)
(***************************************************************************)
RECURSIVE stringifyText(_)
stringifyText(value) ==
    CASE value.kind = "null" -> "null"
      [] value.kind = "undefined" -> "null"
      [] value.kind = "number" -> ToString(value.n)
      [] value.kind = "boolean" -> IF value.n = 1 THEN "true" ELSE "false"
      [] value.kind = "string" -> "\"" \o join(value.chars, "") \o "\""
      [] value.kind = "array" ->
            "[" \o join([i \in DOMAIN value.items |-> stringifyText(value.items[i])], ",")
            \o "]"
      [] OTHER -> "null"

stringify(value) == IF value.kind = "undefined" THEN <<>> ELSE <<stringifyText(value)>>

CacheArgs == {Arr(<<Num(1)>>), Arr(<<Num(2)>>)}
CacheResults == {Undefined, Null, Num(7), Str(<<"x">>)}

cacheKey(name, args) == "cachable:" \o name \o ":" \o stringifyText(args)
CacheKeys == {cacheKey("fn", args) : args \in CacheArgs}

parse(text) ==
    IF \E v \in CacheResults \ {Undefined} : stringifyText(v) = text
    THEN [ok |-> TRUE,
          value |-> CHOOSE v \in CacheResults \ {Undefined} : stringifyText(v) = text]
    ELSE [ok |-> FALSE, value |-> Undefined]

(* the cache before any call of a wrapped function *)
NoCache == [store |-> [k \in CacheKeys |-> <<>>], log |-> <<>>]

InitBuilder ==
    /\ q = NewQuery
    /\ nested = NewQuery
    /\ grp = NoGroup
    /\ trace = <<>>
    /\ thrown = FALSE
    /\ rendered = ""
    /\ clientQueries = 0

Init ==
    /\ InitBuilder
    /\ cohortIn = NoRequest
    /\ cohortSql = NoStatement
    /\ cohortOut = NoResult
    /\ cache = NoCache

(***************************************************************************)
(* Spec: the public methods of the builder, each with one or two argument  *)
(* choices, up to MaxCalls calls; when() is exercised in SpecWhen.         *)
(***************************************************************************)
ColumnLists == {<<Col("x"), Expr("count(*)")>>}
Conds == {Cond(Col("a"), "=", Num(1))}
JoinConds == {Col("e.id = p.id")}
SettingsMaps == {<<[key |-> "max_threads", value |-> "1"]>>}
CteBodies == {NestedBody}

Next ==
    \/ Select(MaxCalls, ColumnLists)
    \/ From(MaxCalls, {"events"}, {TRUE})
    \/ Where(MaxCalls, Conds)
    \/ AndWhere(MaxCalls, Conds)
    \/ OrWhere(MaxCalls, Conds)
    \/ GroupBy(MaxCalls, {<<Col("x")>>})
    \/ Having(MaxCalls, Conds)
    \/ AndHaving(MaxCalls, Conds)
    \/ OrHaving(MaxCalls, Conds)
    \/ OrderBy(MaxCalls, {Col("x")}, {"DESC"})
    \/ Limit(MaxCalls, {5}, {<<10>>})
    \/ Settings(MaxCalls, SettingsMaps)
    \/ With(MaxCalls, {"cte"}, CteBodies)
    \/ Join(MaxCalls, {"profiles"}, JoinConds, {FALSE})
    \/ LeftJoin(MaxCalls, {"profiles"}, JoinConds, {FALSE})
    \/ RightJoin(MaxCalls, {"profiles"}, JoinConds, {FALSE})
    \/ FullJoin(MaxCalls, {"profiles"}, JoinConds, {TRUE})
    \/ CrossJoin(MaxCalls, {"profiles"}, {FALSE})
    \/ WhereGroup(MaxCalls)
    \/ OrWhereGroup(MaxCalls)
    \/ GroupWhere(MaxCalls, Conds)
    \/ GroupAndWhere(MaxCalls, Conds)
    \/ GroupOrWhere(MaxCalls, Conds)
    \/ GroupEnd(MaxCalls)
    \/ If(MaxCalls)
    \/ EndIf(MaxCalls)
    \/ ToSQL(MaxCalls)
    \/ Execute(MaxCalls)

Spec == Init /\ [][Next]_vars

(***************************************************************************)
(* C1.  While the skip flag is set, select, where and orderBy leave the    *)
(* whole Query state unchanged, and every other mutating call changes the  *)
(* builder (and the group builder) exactly as it does from the same state  *)
(* with the flag clear, the flag itself staying set.                       *)
(***************************************************************************)
Skippable == {"select", "where", "orderBy"}
Unaffected ==
    {"andWhere", "orWhere", "from", "groupBy", "having", "andHaving", "orHaving",
     "limit", "settings", "with", "join", "leftJoin", "rightJoin", "fullJoin",
     "crossJoin", "whereGroup", "orWhereGroup", "group.where", "group.andWhere",
     "group.orWhere", "group.end"}

Clear(qq) == [qq EXCEPT !._skipNext = FALSE]
Skipping(r) == [r EXCEPT !.q._skipNext = TRUE]

C1_SkipFrame ==
    [][(q._skipNext /\ trace' # trace) =>
          /\ last'.op \in Skippable => (q' = q /\ grp' = grp /\ ~thrown')
          /\ last'.op \in Unaffected =>
                [q |-> q', grp |-> grp', threw |-> thrown']
                    = Skipping(Apply(last', Clear(q), grp, nested))]_vars

(* if(false), then a suppressed select, then an andWhere that takes effect *)
C1_Witness ==
    /\ Len(trace) = 3
    /\ ops = <<"if", "select", "andWhere">>
    /\ q._skipNext
    /\ q._select = <<>>
    /\ Len(q._where) = 1

(***************************************************************************)
(* C4.  toSQL() changes no field of the builder, of the group builder or   *)
(* of the nested builder, and a toSQL() that directly follows a toSQL()    *)
(* returns the same string.                                                *)
(***************************************************************************)
C4_ToSQLPure ==
    [][(last'.op = "toSQL" /\ trace' # trace) =>
          /\ q' = q
          /\ grp' = grp
          /\ nested' = nested
          /\ last.op = "toSQL" => rendered' = rendered]_vars

C4_Witness ==
    /\ Len(trace) = 3
    /\ ops = <<"if", "toSQL", "toSQL">>
    /\ q._skipNext
    /\ rendered = "SELECT *"

(***************************************************************************)
(* SpecIf: conditional composition with if / endIf around the three        *)
(* suppressible methods and andWhere.                                      *)
(***************************************************************************)
IfConds == {Cond(Col("a"), "=", Num(1))}

NextIf ==
    \/ Select(MaxIfCalls, {<<Col("x")>>, <<Col("y")>>})
    \/ Where(MaxIfCalls, IfConds)
    \/ AndWhere(MaxIfCalls, IfConds)
    \/ OrderBy(MaxIfCalls, {Col("x")}, {"ASC"})
    \/ If(MaxIfCalls)
    \/ EndIf(MaxIfCalls)
    \/ ToSQL(MaxIfCalls)

SpecIf == Init /\ [][NextIf]_vars

(***************************************************************************)
(* C2 as claimed.  From every reachable state, where and andWhere with the *)
(* same arguments give the same resulting state.                           *)
(***************************************************************************)
SynonymArgs ==
    {Cond(Col("a"), "=", Num(1)), Cond(Col("b"), "IN", Arr(<<Num(1), Num(2)>>)),
     Cond(Col("b"), "BETWEEN", Arr(<<Num(1)>>))}

C2_Synonyms ==
    \A c \in SynonymArgs :
        where(q, c.column, c.operator, c.value) = andWhere(q, c.column, c.operator, c.value)

(***************************************************************************)
(* C2 amended.  With the skip flag clear, where and andWhere with the same *)
(* arguments give the same resulting state; with the flag set, where       *)
(* leaves the state as it is.  In both cases andWhere appends the          *)
(* condition with joiner AND (or throws as buildCondition does).           *)
(***************************************************************************)
C2_SynonymsUnlessSkipped ==
    \A c \in SynonymArgs :
        LET w == where(q, c.column, c.operator, c.value)
            a == andWhere(q, c.column, c.operator, c.value)
            built == buildCondition(c.column, c.operator, c.value)
        IN  /\ ~q._skipNext => w = a
            /\ q._skipNext => w = Ok(q)
            /\ a = IF built.threw THEN Raise(q)
                   ELSE Ok([q EXCEPT !._where =
                              Append(@, [condition |-> built.condition,
                                         operator |-> "AND", isGroup |-> FALSE])])

(* where has acted after an if(false) ... endIf block; the flag is clear *)
C2_Witness ==
    /\ ops = <<"if", "where", "endIf", "where">>
    /\ ~trace[1].flag
    /\ ~q._skipNext
    /\ Len(q._where) = 1

(***************************************************************************)
(* C3.  After if(p) the skip flag is not-p and after endIf() it is false,  *)
(* whatever it was; a select that follows endIf() takes effect; and        *)
(* if(false).select(['x']).endIf().select(['y']) leaves _select = ['y'].   *)
(***************************************************************************)
IfExample ==
    <<IfCall(FALSE), ColumnsCall("select", <<Col("x")>>), Call("endIf"),
      ColumnsCall("select", <<Col("y")>>)>>

C3_IfEndIf ==
    /\ last.op = "if" => q._skipNext = ~last.flag
    /\ last.op = "endIf" => ~q._skipNext
    /\ (prev.op = "endIf" /\ last.op = "select") => q._select = last.columns
    /\ (prev.op = "endIf" /\ last.op = "where") => Len(q._where) > 0
    /\ (prev.op = "endIf" /\ last.op = "orderBy") => Len(q._orderBy) > 0
    /\ trace = IfExample => (q._select = <<Col("y")>> /\ toSQL(q, nested).sql = "SELECT y")

C3_Witness == trace = IfExample

(***************************************************************************)
(* SpecWhere: sequences of where / andWhere / orWhere calls, rendered.     *)
(***************************************************************************)
WhereConds == {Cond(Col("a"), "=", Num(1)), Cond(Col("b"), "=", Num(2))}

NextWhere ==
    \/ Where(MaxWhereCalls, WhereConds)
    \/ AndWhere(MaxWhereCalls, WhereConds)
    \/ OrWhere(MaxWhereCalls, WhereConds)
    \/ ToSQL(MaxWhereCalls)

SpecWhere == Init /\ [][NextWhere]_vars

(***************************************************************************)
(* What a sequence of condition calls is expected to render as: the        *)
(* conditions in call order, the first bare, each later one after its own  *)
(* joiner (OR for orWhere and group.orWhere, AND otherwise).               *)
(***************************************************************************)
WhereOps == {"where", "andWhere", "orWhere"}
GroupCondOps == {"group.where", "group.andWhere", "group.orWhere"}

RECURSIVE Only(_, _)
Only(callSeq, opSet) ==
    IF callSeq = <<>> THEN <<>>
    ELSE (IF Head(callSeq).op \in opSet THEN <<Head(callSeq)>> ELSE <<>>)
         \o Only(Tail(callSeq), opSet)

JoinerOf(call) == IF call.op \in {"orWhere", "group.orWhere"} THEN "OR" ELSE "AND"
FragmentOf(call) == buildCondition(call.column, call.operator, call.value).condition

RECURSIVE ExpectedConditions(_)
ExpectedConditions(callSeq) ==
    IF callSeq = <<>> THEN ""
    ELSE IF Len(callSeq) = 1 THEN FragmentOf(callSeq[1])
    ELSE ExpectedConditions(SubSeq(callSeq, 1, Len(callSeq) - 1))
         \o " " \o JoinerOf(callSeq[Len(callSeq)]) \o " " \o FragmentOf(callSeq[Len(callSeq)])

(***************************************************************************)
(* C5.  The WHERE clause that toSQL() renders lists the conditions of the  *)
(* where / andWhere / orWhere calls in call order, the first without its   *)
(* joiner and every later one after exactly its own joiner;                *)
(* where('a','=',1).orWhere('b','=',2) renders WHERE a = 1 OR b = 2.        *)
(***************************************************************************)
WhereExample ==
    <<CondCall("where", Cond(Col("a"), "=", Num(1))),
      CondCall("orWhere", Cond(Col("b"), "=", Num(2))), Call("toSQL")>>

C5_WhereOrder ==
    /\ Len(q._where) = Len(Only(trace, WhereOps))
    /\ (last.op = "toSQL" /\ Only(trace, WhereOps) # <<>>) =>
            rendered = "SELECT * WHERE " \o ExpectedConditions(Only(trace, WhereOps))
    /\ trace = WhereExample => rendered = "SELECT * WHERE a = 1 OR b = 2"

C5_Witness == trace = WhereExample

(***************************************************************************)
(* SpecGroup: a where-group built after a plain condition and committed    *)
(* with end().                                                             *)
(***************************************************************************)
NextGroup ==
    \/ Where(MaxGroupCalls, {Cond(Col("c"), "=", Num(3))})
    \/ WhereGroup(MaxGroupCalls)
    \/ OrWhereGroup(MaxGroupCalls)
    \/ GroupWhere(MaxGroupCalls, {Cond(Col("a"), "=", Num(1))})
    \/ GroupAndWhere(MaxGroupCalls, {Cond(Col("a"), "=", Num(1))})
    \/ GroupOrWhere(MaxGroupCalls, {Cond(Col("b"), "=", Num(2))})
    \/ GroupEnd(MaxGroupCalls)
    \/ ToSQL(MaxGroupCalls)

SpecGroup == Init /\ [][NextGroup]_vars

(* the calls made on the current group builder: those after its creation *)
RECURSIVE SinceCreation(_)
SinceCreation(callSeq) ==
    IF callSeq = <<>> THEN <<>>
    ELSE IF callSeq[Len(callSeq)].op \in {"whereGroup", "orWhereGroup"} THEN <<>>
    ELSE Append(SinceCreation(SubSeq(callSeq, 1, Len(callSeq) - 1)), callSeq[Len(callSeq)])

RECURSIVE CreatedBy(_)
CreatedBy(callSeq) ==
    IF callSeq = <<>> THEN "none"
    ELSE IF callSeq[Len(callSeq)].op \in {"whereGroup", "orWhereGroup"}
         THEN callSeq[Len(callSeq)].op
    ELSE CreatedBy(SubSeq(callSeq, 1, Len(callSeq) - 1))

FirstEnd(callSeq) == Only(SinceCreation(callSeq), {"group.end"}) = <<>>

GroupExample ==
    <<CondCall("where", Cond(Col("c"), "=", Num(3))), Call("whereGroup"),
      CondCall("group.where", Cond(Col("a"), "=", Num(1))),
      CondCall("group.orWhere", Cond(Col("b"), "=", Num(2))),
      Call("group.end")>>

(***************************************************************************)
(* C6.  The calls on a group builder leave the parent unchanged until      *)
(* end(); the first end() after whereGroup() / orWhereGroup() appends      *)
(* exactly one condition to the parent's WHERE sequence, marked as a       *)
(* group, with joiner AND / OR, holding the group's conditions in call     *)
(* order joined by their own joiners; it renders inside one pair of        *)
(* parentheses: WHERE c = 3 AND (a = 1 OR b = 2).                          *)
(***************************************************************************)
C6_GroupCommit ==
    [][(trace' # trace) =>
          /\ last'.op \in GroupCondOps \cup {"whereGroup", "orWhereGroup"} => q' = q
          /\ (last'.op = "group.end" /\ FirstEnd(trace)) =>
                /\ Len(q'._where) = Len(q._where) + 1
                /\ SubSeq(q'._where, 1, Len(q._where)) = q._where
                /\ q'._where[Len(q'._where)] =
                      [condition |-> ExpectedConditions(Only(SinceCreation(trace), GroupCondOps)),
                       operator |-> IF CreatedBy(trace) = "orWhereGroup" THEN "OR" ELSE "AND",
                       isGroup |-> TRUE]
                /\ [q' EXCEPT !._where = q._where] = q
                /\ buildWhereConditions(<<q'._where[Len(q'._where)]>>) =
                      "(" \o ExpectedConditions(Only(SinceCreation(trace), GroupCondOps)) \o ")"
          /\ trace' = GroupExample =>
                toSQL(q', nested').sql = "SELECT * WHERE c = 3 AND (a = 1 OR b = 2)"]_vars

C6_Witness == trace = GroupExample /\ Len(q._where) = 2 /\ q._where[2].isGroup

(***************************************************************************)
(* SpecErr: condition calls whose value does not fit the operator, on the  *)
(* builder, on its HAVING methods and on a group builder, with and without *)
(* the skip flag, next to execute().                                       *)
(***************************************************************************)
ErrConds ==
    {Cond(Col("a"), "BETWEEN", Arr(<<Num(1)>>)),
     Cond(Col("a"), "BETWEEN", Arr(<<Num(1), Num(2)>>)),
     Cond(Col("a"), "BETWEEN", Arr(<<Num(1), Num(2), Num(3)>>)),
     Cond(Col("a"), "BETWEEN", Num(5)),
     Cond(Col("a"), "IN", Num(5)),
     Cond(Col("a"), "NOT IN", Str(<<"x">>)),
     Cond(Col("a"), "IN", Arr(<<Num(1), Num(2)>>)),
     Cond(Col("a"), "=", Undefined),
     Cond(Col("a"), "IS NULL", Undefined)}

NextErr ==
    \/ Where(MaxErrCalls, ErrConds)
    \/ AndWhere(MaxErrCalls, ErrConds)
    \/ OrWhere(MaxErrCalls, ErrConds)
    \/ Having(MaxErrCalls, ErrConds)
    \/ AndHaving(MaxErrCalls, ErrConds)
    \/ OrHaving(MaxErrCalls, ErrConds)
    \/ WhereGroup(MaxErrCalls)
    \/ GroupWhere(MaxErrCalls, ErrConds)
    \/ GroupAndWhere(MaxErrCalls, ErrConds)
    \/ GroupOrWhere(MaxErrCalls, ErrConds)
    \/ If(MaxErrCalls)
    \/ Execute(MaxErrCalls)

SpecErr == Init /\ [][NextErr]_vars

CondOps == WhereOps \cup {"having", "andHaving", "orHaving"} \cup GroupCondOps

BadShape(call) ==
    \/ call.operator = "BETWEEN" /\ ~(call.value.kind = "array" /\ Len(call.value.items) = 2)
    \/ call.operator \in {"IN", "NOT IN"} /\ call.value.kind # "array"

NothingAppended ==
    /\ q'._where = q._where
    /\ q'._having = q._having
    /\ grp'.conditions = grp.conditions
    /\ clientQueries' = clientQueries

(***************************************************************************)
(* C7 as claimed.  A condition call whose value does not fit BETWEEN, IN   *)
(* or NOT IN raises an error, appends nothing and issues no client query.  *)
(***************************************************************************)
C7_BadShapeThrows ==
    [][(trace' # trace /\ last'.op \in CondOps /\ BadShape(last')) =>
          (thrown' /\ NothingAppended)]_vars

(***************************************************************************)
(* C7 amended.  Such a call appends nothing and issues no client query,    *)
(* and it raises an error unless it is where() called while the skip flag  *)
(* is set, which returns without raising.                                  *)
(***************************************************************************)
C7_BadShapeThrowsUnlessSkipped ==
    [][(trace' # trace /\ last'.op \in CondOps /\ BadShape(last')) =>
          /\ NothingAppended
          /\ thrown' = ~(last'.op = "where" /\ q._skipNext)]_vars

(* a BETWEEN with three values has just been refused by orHaving *)
C7_Witness ==
    /\ last.op = "orHaving"
    /\ last.operator = "BETWEEN"
    /\ Len(last.value.items) = 3
    /\ thrown
    /\ q._having = <<>>

(***************************************************************************)
(* C8 as claimed.  A condition call with an operator other than IS NULL /  *)
(* IS NOT NULL and no value raises an error and appends no condition.      *)
(***************************************************************************)
MissingValue(call) ==
    call.value.kind = "undefined" /\ call.operator \notin {"IS NULL", "IS NOT NULL"}

C8_MissingValueFails ==
    [][(trace' # trace /\ last'.op \in CondOps /\ MissingValue(last')) =>
          (thrown' /\ NothingAppended)]_vars

(***************************************************************************)
(* The cohort procedure of the chart router.                               *)
(*                                                                         *)
(* utc(date): a string has its first T replaced by a space and is cut to   *)
(* 19 characters; a Date is first formatted by formatISO, whose text the   *)
(* Date value carries.                                                     *)
(***************************************************************************)
DateString(chars) == [isString |-> TRUE, chars |-> chars]
DateObject(isoChars) == [isString |-> FALSE, chars |-> isoChars]

utc(date) == join(slice(replaceFirst(date.chars, "T", " "), 19), "")

(* countCriteria, sqlInterval, sqlToStartOf *)
countCriteria(criteria) == IF criteria = "on_or_after" THEN ">=" ELSE "="

sqlInterval(interval) ==
    CASE interval \in {"minute", "hour", "day"} -> "DAY"
      [] interval = "week" -> "WEEK"
      [] interval = "month" -> "MONTH"

sqlToStartOf(interval) ==
    CASE interval \in {"minute", "hour", "day"} -> "toDate"
      [] interval = "week" -> "toStartOfWeek"
      [] interval = "month" -> "toStartOfMonth"

(* ramda range(from, to): from, from + 1, ..., to - 1 *)
range(lo, hi) == [i \in 1..(IF hi > lo THEN hi - lo ELSE 0) |-> lo + i - 1]

(* mutant: the user lists of the indexes below diffInterval only *)
usersExpressionsExclusive(diffInterval, criteria) ==
    [k \in DOMAIN range(0, diffInterval) |->
        LET index == ToString(range(0, diffInterval)[k])
        IN  "groupUniqArrayIf(profile_id, x_after_cohort " \o countCriteria(criteria)
            \o " " \o index \o ") AS interval_" \o index \o "_users"]

(* usersSelect and countsSelect: the expressions mapped over the range,    *)
(* the names of the count columns, and the joined texts                    *)
usersExpressions(diffInterval, criteria) ==
    [k \in DOMAIN range(0, diffInterval + 1) |->
        LET index == ToString(range(0, diffInterval + 1)[k])
        IN  "groupUniqArrayIf(profile_id, x_after_cohort " \o countCriteria(criteria)
            \o " " \o index \o ") AS interval_" \o index \o "_users"]

countsColumns(diffInterval) ==
    [k \in DOMAIN range(0, diffInterval + 1) |->
        "interval_" \o ToString(range(0, diffInterval + 1)[k]) \o "_user_count"]

countsExpressions(diffInterval) ==
    [k \in DOMAIN range(0, diffInterval + 1) |->
        "length(interval_" \o ToString(range(0, diffInterval + 1)[k]) \o "_users) AS "
        \o countsColumns(diffInterval)[k]]

usersSelect(diffInterval, criteria) == join(usersExpressions(diffInterval, criteria), ", ")

countsSelect(diffInterval) == join(countsExpressions(diffInterval), ", ")

(* whereEventNameIs: the literal of each event name, and the predicate *)
eventLiterals(event) == [i \in DOMAIN event |-> escape(Str(event[i]))]

whereEventNameIs(event) ==
    IF Len(event) = 1 THEN "name = " \o eventLiterals(event)[1]
    ELSE "name IN (" \o join(eventLiterals(event), ",") \o ")"

(* the literals of the template: project_id = ${escape(projectId)} and     *)
(* toDate('${utc(date)}')                                                  *)
projectIdLiteral(projectId) == escape(Str(projectId))
dateLiteral(date) == "'" \o utc(date) \o "'"

(***************************************************************************)
(* cohortQuery: the statement (runs of white space of the template written *)
(* as one space) and, beside it, the SQL text of every literal it embeds.  *)
(***************************************************************************)
cohortQueryText(input) ==
    "WITH cohort_users AS ( SELECT profile_id AS userID, project_id, "
    \o sqlToStartOf(input.interval) \o "(created_at) AS cohort_interval"
    \o " FROM cohort_events_mv WHERE " \o whereEventNameIs(input.firstEvent)
    \o " AND project_id = " \o projectIdLiteral(input.projectId)
    \o " AND created_at BETWEEN toDate(" \o dateLiteral(input.startDate)
    \o ") AND toDate(" \o dateLiteral(input.endDate) \o ") ),"
    \o " retention_matrix AS ( SELECT c.cohort_interval, e.profile_id, dateDiff('"
    \o sqlInterval(input.interval) \o "', c.cohort_interval, "
    \o sqlToStartOf(input.interval) \o "(e.created_at)) AS x_after_cohort"
    \o " FROM cohort_users AS c INNER JOIN cohort_events_mv AS e ON c.userID = e.profile_id"
    \o " WHERE (" \o whereEventNameIs(input.secondEvent) \o ") AND (e.project_id = "
    \o projectIdLiteral(input.projectId) \o ")"
    \o " AND ((e.created_at >= c.cohort_interval) AND (e.created_at <= (c.cohort_interval + INTERVAL "
    \o ToString(input.diffInterval) \o " " \o sqlInterval(input.interval) \o "))) ),"
    \o " interval_users AS ( SELECT cohort_interval, "
    \o usersSelect(input.diffInterval, input.criteria)
    \o " FROM retention_matrix GROUP BY cohort_interval ),"
    \o " cohort_sizes AS ( SELECT cohort_interval, COUNT(DISTINCT userID) AS total_first_event_count"
    \o " FROM cohort_users GROUP BY cohort_interval )"
    \o " SELECT cohort_interval, cohort_sizes.total_first_event_count, "
    \o countsSelect(input.diffInterval)
    \o " FROM interval_users LEFT JOIN cohort_sizes AS cs ON cohort_interval = cs.cohort_interval"
    \o " ORDER BY cohort_interval ASC"

cohortQuery(input) ==
    [text |-> cohortQueryText(input),
     projectId |-> projectIdLiteral(input.projectId),
     firstEvent |-> eventLiterals(input.firstEvent),
     secondEvent |-> eventLiterals(input.secondEvent),
     startDate |-> dateLiteral(input.startDate),
     endDate |-> dateLiteral(input.endDate),
     users |-> usersExpressions(input.diffInterval, input.criteria),
     counts |-> countsExpressions(input.diffInterval),
     columns |-> countsColumns(input.diffInterval)]

(***************************************************************************)
(* round of @openpanel/common: half-up to the given number of decimals.    *)
(* The number rounded is the quotient num / den (den > 0); the result is   *)
(* in units of 10^-decimals, so a percentage rounded to 2 decimals is a    *)
(* number of hundredths.                                                   *)
(***************************************************************************)
pow10(decimals) == IF decimals = 0 THEN 1 ELSE IF decimals = 1 THEN 10 ELSE 100

round(num, den, decimals) == (2 * num * pow10(decimals) + den) \div (2 * den)

(***************************************************************************)
(* processCohortData.  A row of the input holds cohort_interval,           *)
(* total_first_event_count and, per index, the interval_<i>_user_count     *)
(* column: <<n>>, or <<>> when the column is absent.  Percentages are      *)
(* numbers of hundredths.                                                  *)
(***************************************************************************)
RECURSIVE sumOf(_)
sumOf(nums) == IF nums = <<>> THEN 0 ELSE Head(nums) + sumOf(Tail(nums))

(* the columns processCohortData reads from a row *)
columnsRead(diffInterval) ==
    [k \in DOMAIN range(0, diffInterval + 1) |->
        "interval_" \o ToString(range(0, diffInterval + 1)[k]) \o "_user_count"]

(* (row[`interval_${index}_user_count`] || 0) *)
countOrZero(row, index) ==
    IF index + 1 \in DOMAIN row.counts /\ row.counts[index + 1] # <<>>
    THEN row.counts[index + 1][1]
    ELSE 0

(* mutant: the percentage cut off after two decimals instead of rounded *)
processRowTruncating(row, diffInterval) ==
    LET sum == row.total_first_event_count
        values == [k \in DOMAIN range(0, diffInterval + 1) |->
                      countOrZero(row, range(0, diffInterval + 1)[k])]
    IN  [cohort_interval |-> row.cohort_interval,
         sum |-> sum,
         values |-> values,
         percentages |-> [k \in DOMAIN values |->
                            IF sum > 0 THEN (values[k] * 10000) \div sum ELSE 0]]

processRow(row, diffInterval) ==
    LET sum == row.total_first_event_count
        values == [k \in DOMAIN range(0, diffInterval + 1) |->
                      countOrZero(row, range(0, diffInterval + 1)[k])]
    IN  [cohort_interval |-> row.cohort_interval,
         sum |-> sum,
         values |-> values,
         percentages |-> [k \in DOMAIN values |->
                            IF sum > 0 THEN round(values[k] * 100, sum, 2) ELSE 0]]

(* mutant: a weighted mean over all the rows, zero values included *)
averageValuesAllRows(processed, k) ==
    [sum |-> sumOf([r \in DOMAIN processed |-> processed[r].sum]),
     weightedSum |-> sumOf([r \in DOMAIN processed |->
                      processed[r].values[k] * processed[r].sum])]

(* averageData.values[index] and averageData.percentages[index] after the  *)
(* forEach over the processed rows                                         *)
averageValues(processed, k) ==
    [sum |-> sumOf([r \in DOMAIN processed |->
                      IF processed[r].values[k] # 0 THEN processed[r].sum ELSE 0]),
     weightedSum |-> sumOf([r \in DOMAIN processed |->
                      IF processed[r].values[k] # 0
                      THEN processed[r].values[k] * processed[r].sum ELSE 0])]

averagePercentages(processed, k) ==
    [sum |-> sumOf([r \in DOMAIN processed |->
                      IF processed[r].percentages[k] # 0 THEN processed[r].sum ELSE 0]),
     weightedSum |-> sumOf([r \in DOMAIN processed |->
                      IF processed[r].percentages[k] # 0
                      THEN processed[r].percentages[k] * processed[r].sum ELSE 0])]

(* mutant: the weighted sums left undivided *)
averageRowUndivided(processed, diffInterval) ==
    LET indexes == DOMAIN range(0, diffInterval + 1)
    IN  [cohort_interval |-> "Weighted Average",
         sum |-> round(sumOf([r \in DOMAIN processed |-> processed[r].sum]),
                       Len(processed), 0),
         values |-> [k \in indexes |-> averageValues(processed, k).weightedSum],
         percentages |-> [k \in indexes |-> averagePercentages(processed, k).weightedSum]]

averageRow(processed, diffInterval) ==
    LET indexes == DOMAIN range(0, diffInterval + 1)
    IN  [cohort_interval |-> "Weighted Average",
         sum |-> round(sumOf([r \in DOMAIN processed |-> processed[r].sum]),
                       Len(processed), 0),
         values |-> [k \in indexes |->
                       LET a == averageValues(processed, k)
                       IN  IF a.sum > 0 THEN round(a.weightedSum, a.sum, 0) ELSE 0],
         percentages |-> [k \in indexes |->
                            LET a == averagePercentages(processed, k)
                            IN  IF a.sum > 0 THEN round(a.weightedSum, a.sum * 100, 2)
                                ELSE 0]]

(* mutant: the average row after the cohort rows, and for empty input too *)
processCohortDataAverageLast(data, diffInterval) ==
    LET processed == [r \in DOMAIN data |-> processRow(data[r], diffInterval)]
    IN  processed \o <<averageRow(processed \o <<processRow(
                            [cohort_interval |-> "", total_first_event_count |-> 1,
                             counts |-> <<>>], diffInterval)>>, diffInterval)>>

processCohortData(data, diffInterval) ==
    IF Len(data) = 0 THEN <<>>
    ELSE LET processed == [r \in DOMAIN data |-> processRow(data[r], diffInterval)]
         IN  <<averageRow(processed, diffInterval)>> \o processed

(***************************************************************************)
(* SpecCohortQuery: one cohort request; the statement is generated from    *)
(* it.  diffInterval is what date-fns computes from the two dates.         *)
(***************************************************************************)
ProjectIds == {<<"p", "1">>, <<"p", "'", "1">>}
EventLists == {<<<<"a">>>>, <<<<"a">>, <<"b", "'">>>>}
Dates ==
    {DateString(<<"2", "0", "2", "4", "-", "0", "1", "-", "0", "2", "T",
                  "0", "3", ":", "0", "4", ":", "0", "5", ".", "0", "0", "0", "Z">>),
     DateString(<<"1", "'", ")", " ", "O", "R", " ", "(", "'", "1">>),
     DateObject(<<"2", "0", "2", "4", "-", "0", "1", "-", "0", "9", "T",
                  "0", "0", ":", "0", "0", ":", "0", "0", "+", "0", "0", ":", "0", "0">>)}
Criteria == {"on_or_after", "on"}
Intervals == {"hour", "day", "week", "month"}
DiffIntervals == 0..MaxDiffInterval

InitCohortQuery ==
    /\ InitBuilder
    /\ cohortIn \in [requested : {TRUE}, projectId : ProjectIds, firstEvent : EventLists,
                     secondEvent : EventLists, criteria : Criteria, interval : Intervals,
                     startDate : Dates, endDate : Dates, diffInterval : DiffIntervals]
    /\ cohortSql = NoStatement
    /\ cohortOut = NoResult
    /\ cache = NoCache

GenerateCohortQuery ==
    /\ cohortIn.requested
    /\ ~cohortSql.generated
    /\ cohortSql' = [generated |-> TRUE, query |-> cohortQuery(cohortIn)]
    /\ UNCHANGED <<q, nested, grp, trace, thrown, rendered, clientQueries, cohortIn, cohortOut,
                 cache>>

SpecCohortQuery == InitCohortQuery /\ [][GenerateCohortQuery]_vars

(***************************************************************************)
(* C9 as claimed.  In the generated statement the project id, every event  *)
(* name and both date bounds stand as the text the escape routine gives    *)
(* for them (a date after its truncation to seconds).                      *)
(***************************************************************************)
escapedDate(date) == escape(Str(slice(replaceFirst(date.chars, "T", " "), 19)))

C9_LiteralsEscaped ==
    cohortSql.generated =>
        /\ cohortSql.query.projectId = escape(Str(cohortIn.projectId))
        /\ \A i \in DOMAIN cohortIn.firstEvent :
              cohortSql.query.firstEvent[i] = escape(Str(cohortIn.firstEvent[i]))
        /\ \A i \in DOMAIN cohortIn.secondEvent :
              cohortSql.query.secondEvent[i] = escape(Str(cohortIn.secondEvent[i]))
        /\ cohortSql.query.startDate = escapedDate(cohortIn.startDate)
        /\ cohortSql.query.endDate = escapedDate(cohortIn.endDate)

(***************************************************************************)
(* SpecCohortData: the rows the statement returned, for diffInterval = 1,  *)
(* handed to processCohortData.                                            *)
(***************************************************************************)
CohortSums == {0, 10, 20}
CohortCounts == {<<>>, <<0>>, <<5>>, <<10>>}
CohortRows ==
    [cohort_interval : {"2024-01-01"}, total_first_event_count : CohortSums,
     counts : [1..2 -> CohortCounts]]

RECURSIVE SeqsUpTo(_, _)
SeqsUpTo(S, n) ==
    IF n = 0 THEN {<<>>}
    ELSE SeqsUpTo(S, n - 1)
         \cup {Append(t, x) : t \in {u \in SeqsUpTo(S, n - 1) : Len(u) = n - 1}, x \in S}

InitCohortData ==
    /\ InitBuilder
    /\ cohortIn \in [requested : {TRUE}, diffInterval : {1},
                     data : SeqsUpTo(CohortRows, MaxCohorts)]
    /\ cohortSql = NoStatement
    /\ cohortOut = NoResult
    /\ cache = NoCache

ProcessCohortData ==
    /\ cohortIn.requested
    /\ ~cohortOut.done
    /\ cohortOut' = [done |-> TRUE,
                     rows |-> processCohortData(cohortIn.data, cohortIn.diffInterval)]
    /\ UNCHANGED <<q, nested, grp, trace, thrown, rendered, clientQueries, cohortIn, cohortSql,
                 cache>>

SpecCohortData == InitCohortData /\ [][ProcessCohortData]_vars

(***************************************************************************)
(* The cohorts that contribute at index i (position i + 1): those whose    *)
(* value there is non-zero; their total size and weighted total.           *)
(***************************************************************************)
RECURSIVE SumOverSet(_, _)
SumOverSet(S, f) ==
    IF S = {} THEN 0
    ELSE LET x == CHOOSE y \in S : TRUE IN f[x] + SumOverSet(S \ {x}, f)

InputValue(r, k) ==
    IF cohortIn.data[r].counts[k] = <<>> THEN 0 ELSE cohortIn.data[r].counts[k][1]
InputSum(r) == cohortIn.data[r].total_first_event_count

Contributors(k) == {r \in DOMAIN cohortIn.data : InputValue(r, k) # 0}
ContributorsSize(k) == SumOverSet(Contributors(k), [r \in DOMAIN cohortIn.data |-> InputSum(r)])
ContributorsWeighted(k) ==
    SumOverSet(Contributors(k),
               [r \in DOMAIN cohortIn.data |-> InputValue(r, k) * InputSum(r)])

(* a quotient rounded to an integer: <<n>>, or <<>> when the divisor is 0 *)
RoundedQuotient(num, den) == IF den = 0 THEN <<>> ELSE <<round(num, den, 0)>>

CohortExample ==
    <<[cohort_interval |-> "2024-01-01", total_first_event_count |-> 10,
       counts |-> <<<<5>>, <<0>>>>],
      [cohort_interval |-> "2024-01-01", total_first_event_count |-> 20,
       counts |-> <<<<0>>, <<10>>>>]>>

(***************************************************************************)
(* C10 as claimed.  The Weighted Average row's value at each index is 0    *)
(* when no cohort has a non-zero value there, and otherwise is the rounded *)
(* quotient of the contributing cohorts' weighted total by their total     *)
(* size.                                                                   *)
(***************************************************************************)
C10_WeightedAverage ==
    (cohortOut.done /\ cohortIn.data # <<>>) =>
        \A k \in 1..(cohortIn.diffInterval + 1) :
            <<cohortOut.rows[1].values[k]>> =
                IF Contributors(k) = {} THEN <<0>>
                ELSE RoundedQuotient(ContributorsWeighted(k), ContributorsSize(k))

(***************************************************************************)
(* C10 amended.  The value is 0 when no cohort contributes or when the     *)
(* contributing cohorts' sizes add up to 0, and the rounded quotient       *)
(* otherwise; the example gives 5 at index 0 and 10 at index 1.            *)
(***************************************************************************)
C10_WeightedAverageOrZero ==
    (cohortOut.done /\ cohortIn.data # <<>>) =>
        /\ cohortOut.rows[1].cohort_interval = "Weighted Average"
        /\ \A k \in 1..(cohortIn.diffInterval + 1) :
              cohortOut.rows[1].values[k] =
                  IF Contributors(k) = {} \/ ContributorsSize(k) = 0 THEN 0
                  ELSE round(ContributorsWeighted(k), ContributorsSize(k), 0)
        /\ cohortIn.data = CohortExample => cohortOut.rows[1].values = <<5, 10>>

C10_Witness == cohortOut.done /\ cohortIn.data = CohortExample

(***************************************************************************)
(* SpecCohortRows: rows with distinct cohort intervals and columns that    *)
(* may be absent, handed to processCohortData for diffInterval 0, 1 or 2.  *)
(***************************************************************************)
RowIntervals == {"2024-01-01", "2024-01-02"}
RowSums == {0, 3}
RowCounts == {<<>>, <<0>>, <<2>>}
RowDiffIntervals == 0..MaxDiffInterval
Rows ==
    [cohort_interval : RowIntervals, total_first_event_count : RowSums,
     counts : [1..2 -> RowCounts]]

InitCohortRows ==
    /\ InitBuilder
    /\ cohortIn \in [requested : {TRUE}, diffInterval : RowDiffIntervals,
                     data : SeqsUpTo(Rows, MaxCohorts)]
    /\ cohortSql = NoStatement
    /\ cohortOut = NoResult
    /\ cache = NoCache

SpecCohortRows == InitCohortRows /\ [][ProcessCohortData]_vars

(***************************************************************************)
(* C11.  Empty input gives an empty result; n >= 1 rows give n + 1 rows:   *)
(* the Weighted Average row first, then one row per input row in input     *)
(* order with its cohort_interval; every returned row's values and         *)
(* percentages have intervalCount + 1 entries.                             *)
(***************************************************************************)
C11_RowCounts ==
    cohortOut.done =>
        LET data == cohortIn.data
            rows == cohortOut.rows
        IN  /\ (data = <<>>) => (rows = <<>>)
            /\ (Len(data) >= 1) =>
                  /\ Len(rows) = Len(data) + 1
                  /\ rows[1].cohort_interval = "Weighted Average"
                  /\ \A r \in DOMAIN data :
                        rows[r + 1].cohort_interval = data[r].cohort_interval
                  /\ \A r \in DOMAIN rows :
                        /\ Len(rows[r].values) = cohortIn.diffInterval + 1
                        /\ Len(rows[r].percentages) = cohortIn.diffInterval + 1

C11_Witness ==
    /\ cohortOut.done
    /\ cohortIn.diffInterval = 2
    /\ Len(cohortIn.data) = 2
    /\ cohortIn.data[1].cohort_interval = "2024-01-02"
    /\ cohortIn.data[2].cohort_interval = "2024-01-01"
    /\ Len(cohortOut.rows) = 3

(***************************************************************************)
(* C12.  For every input row and every index i in 0..intervalCount, the    *)
(* output values[i] is the row's interval_i_user_count, 0 when the column  *)
(* is absent, and percentages[i] is round(values[i] / sum * 100, 2) when   *)
(* sum > 0 and 0 otherwise.  Percentages are numbers of hundredths.        *)
(***************************************************************************)
ColumnOrZero(row, i) ==
    IF i + 1 \in DOMAIN row.counts /\ row.counts[i + 1] # <<>>
    THEN row.counts[i + 1][1] ELSE 0

C12_RowValues ==
    cohortOut.done =>
        \A r \in DOMAIN cohortIn.data : \A i \in 0..cohortIn.diffInterval :
            LET row == cohortIn.data[r]
                out == cohortOut.rows[r + 1]
                sum == row.total_first_event_count
            IN  /\ out.sum = sum
                /\ out.values[i + 1] = ColumnOrZero(row, i)
                /\ out.percentages[i + 1] =
                      IF sum > 0 THEN round(ColumnOrZero(row, i) * 100, sum, 2) ELSE 0

(* 2 of 3 users is 66.67 %, an absent column is 0, a cohort of size 0 has 0 % *)
C12_Witness ==
    /\ cohortOut.done
    /\ Len(cohortIn.data) = 2
    /\ cohortIn.diffInterval = 2
    /\ cohortIn.data[1].total_first_event_count = 3
    /\ cohortIn.data[1].counts = <<<<2>>, <<>>>>
    /\ cohortOut.rows[2].percentages = <<6667, 0, 0>>
    /\ cohortIn.data[2].total_first_event_count = 0
    /\ cohortIn.data[2].counts = <<<<2>>, <<2>>>>
    /\ cohortOut.rows[3].values = <<2, 2, 0>>
    /\ cohortOut.rows[3].percentages = <<0, 0, 0>>

(***************************************************************************)
(* SpecJoin: from() and the five join methods, then toSQL().               *)
(***************************************************************************)
JoinOnConds == {Col("a = b"), Expr("c = d")}

NextJoin ==
    \/ From(MaxJoinCalls, {"events", ""}, BOOLEAN)
    \/ Join(MaxJoinCalls, {"u"}, JoinOnConds, {FALSE})
    \/ LeftJoin(MaxJoinCalls, {"u"}, {Col("a = b")}, {TRUE})
    \/ RightJoin(MaxJoinCalls, {"u"}, {Col("a = b")}, {FALSE})
    \/ FullJoin(MaxJoinCalls, {"u"}, {Expr("c = d")}, {FALSE})
    \/ CrossJoin(MaxJoinCalls, {"t"}, BOOLEAN)
    \/ ToSQL(MaxJoinCalls)

SpecJoin == Init /\ [][NextJoin]_vars

(***************************************************************************)
(* What the calls made so far should render: the FROM target of the last   *)
(* from() call, and one fragment per join call, in call order.             *)
(***************************************************************************)
JoinOps == {"join", "leftJoin", "rightJoin", "fullJoin", "crossJoin"}

KindOf(call) ==
    CASE call.op = "join" -> "INNER"
      [] call.op = "leftJoin" -> "LEFT"
      [] call.op = "rightJoin" -> "RIGHT"
      [] call.op = "fullJoin" -> "FULL"
      [] call.op = "crossJoin" -> "CROSS"

ExpectedJoin(call) ==
    KindOf(call) \o " JOIN " \o call.table \o (IF call.flag THEN " FINAL" ELSE "")
    \o (IF call.op = "crossJoin" THEN "" ELSE " ON " \o call.column.text)

ExpectedJoins == [i \in DOMAIN Only(trace, JoinOps) |-> ExpectedJoin(Only(trace, JoinOps)[i])]

LastFrom ==
    LET froms == Only(trace, {"from"})
    IN  IF froms = <<>> THEN NoCall ELSE froms[Len(froms)]

ExpectedFrom ==
    IF LastFrom.op = "from" /\ LastFrom.table # ""
    THEN <<"FROM " \o LastFrom.table \o (IF LastFrom.flag THEN " FINAL" ELSE "")>>
    ELSE <<>>

JoinExample ==
    <<FromCall("events", FALSE), JoinCall("crossJoin", "t", Col(""), FALSE),
      JoinCall("join", "u", Col("a = b"), FALSE), Call("toSQL")>>

(***************************************************************************)
(* C13 as claimed.  After any sequence of calls, every CROSS join renders  *)
(* as CROSS JOIN <table>[ FINAL] with no ON part and every other join      *)
(* renders with its ON condition, in call order after FROM.                *)
(***************************************************************************)
C13_JoinsRender ==
    last.op = "toSQL" =>
        rendered = join(<<"SELECT *">> \o ExpectedFrom \o ExpectedJoins, " ")

(***************************************************************************)
(* C13 amended.  The joins render so when a non-empty FROM target is set;  *)
(* without one no join is rendered at all.  In either case no CROSS join   *)
(* carries an ON part.                                                     *)
(***************************************************************************)
C13_JoinsRenderAfterFrom ==
    /\ last.op = "toSQL" =>
          rendered = join(<<"SELECT *">> \o ExpectedFrom
                          \o (IF ExpectedFrom # <<>> THEN ExpectedJoins ELSE <<>>), " ")
    /\ trace = JoinExample =>
          rendered = "SELECT * FROM events CROSS JOIN t INNER JOIN u ON a = b"

C13_Witness == trace = JoinExample

(***************************************************************************)
(* Calls on the nested builder, the Query object a CTE of the outer        *)
(* builder refers to.  The CTE holds the object, not its text, so a call   *)
(* made on it after with() shows in the outer builder's next render.       *)
(***************************************************************************)
NestedStep(call) ==
    /\ nested' = Apply(call, nested, NoGroup, NewQuery).q
    /\ thrown' = Apply(call, nested, NoGroup, NewQuery).threw
    /\ Record([call EXCEPT !.op = "nested." \o call.op])
    /\ UNCHANGED <<q, grp, rendered, clientQueries, cohortIn, cohortSql, cohortOut, cache>>

NestedSelect(b, lists) ==
    /\ Within(b)
    /\ \E columns \in lists :
         NestedStep(ColumnsCall("select", columns))

NestedFrom(b, tables, finals) ==
    /\ Within(b)
    /\ \E table \in tables, final \in finals :
         NestedStep(FromCall(table, final))

NestedWhere(b, conds) ==
    /\ Within(b)
    /\ \E c \in conds :
         NestedStep(CondCall("where", c))

(***************************************************************************)
(* SpecCte: CTEs with a nested builder or a string as body, calls on the   *)
(* nested builder before and after with(), and toSQL() on the outer one.   *)
(***************************************************************************)
NextCte ==
    \/ With(MaxCteCalls, {"x", "y"}, {NestedBody, StringBody("SELECT 1")})
    \/ Select(MaxCteCalls, {<<Col("a")>>})
    \/ NestedSelect(MaxCteCalls, {<<Col("id")>>})
    \/ NestedFrom(MaxCteCalls, {"events"}, {FALSE})
    \/ NestedWhere(MaxCteCalls, {Cond(Col("n"), "=", Num(1))})
    \/ ToSQL(MaxCteCalls)

SpecCte == Init /\ [][NextCte]_vars

ExpectedCte(call) ==
    call.table \o " AS ("
    \o (IF call.body.isQuery THEN toSQL(nested, NewQuery).sql ELSE call.body.sql)
    \o ")"

ExpectedCtes ==
    LET withs == Only(trace, {"with"})
    IN  IF withs = <<>> THEN <<>>
        ELSE <<"WITH " \o join([i \in DOMAIN withs |-> ExpectedCte(withs[i])], ", ")>>

CteExample ==
    <<[FromCall("events", FALSE) EXCEPT !.op = "nested.from"],
      WithCall("x", NestedBody),
      [CondCall("where", Cond(Col("n"), "=", Num(1))) EXCEPT !.op = "nested.where"],
      Call("toSQL")>>

(***************************************************************************)
(* C14.  outer.with('x', nested).toSQL() holds x AS ( followed by exactly  *)
(* the string nested.toSQL() returns at that moment, followed by );  the   *)
(* CTEs render in the order they were added, before SELECT.                *)
(***************************************************************************)
C14_CteEmbedsNested ==
    /\ last.op = "toSQL" =>
          rendered = join(ExpectedCtes
                          \o <<IF Only(trace, {"select"}) = <<>> THEN "SELECT *"
                               ELSE "SELECT a">>, " ")
    /\ trace = CteExample =>
          /\ toSQL(nested, NewQuery).sql = "SELECT * FROM events WHERE n = 1"
          /\ rendered = "WITH x AS (SELECT * FROM events WHERE n = 1) SELECT *"

C14_Witness == trace = CteExample

(***************************************************************************)
(* C15.  The statement holds one user-list expression and one cardinality  *)
(* column for each index 0..intervalCount, intervalCount + 1 of each,      *)
(* named interval_<i>_users and interval_<i>_user_count in ascending       *)
(* order, comparing with >= when criteria is on_or_after and with =        *)
(* otherwise; the aggregator reads exactly the columns the statement       *)
(* produces.                                                               *)
(***************************************************************************)
ExpectedUsers(i, criteria) ==
    "groupUniqArrayIf(profile_id, x_after_cohort "
    \o (IF criteria = "on_or_after" THEN ">=" ELSE "=") \o " " \o ToString(i)
    \o ") AS interval_" \o ToString(i) \o "_users"

ExpectedCount(i) ==
    "length(interval_" \o ToString(i) \o "_users) AS interval_" \o ToString(i) \o "_user_count"

C15_IntervalColumns ==
    cohortSql.generated =>
        LET n == cohortIn.diffInterval
            sql == cohortSql.query
        IN  /\ Len(sql.users) = n + 1
            /\ Len(sql.counts) = n + 1
            /\ \A i \in 0..n :
                  /\ sql.users[i + 1] = ExpectedUsers(i, cohortIn.criteria)
                  /\ sql.counts[i + 1] = ExpectedCount(i)
                  /\ sql.columns[i + 1] = "interval_" \o ToString(i) \o "_user_count"
            /\ columnsRead(n) = sql.columns

C15_Witness ==
    /\ cohortSql.generated
    /\ cohortIn.diffInterval = 2
    /\ cohortIn.criteria = "on"
    /\ cohortSql.query.users[3] =
          "groupUniqArrayIf(profile_id, x_after_cohort = 2) AS interval_2_users"
    /\ cohortSql.query.counts[3] = "length(interval_2_users) AS interval_2_user_count"

(***************************************************************************)
(* Query.when.  A callback is the calls it makes on the builder it is      *)
(* handed and the value it returns; when() discards that value and returns *)
(* the builder.  A call that throws ends the callback.                     *)
(***************************************************************************)
RECURSIVE callback(_, _, _, _)
callback(calls, qq, g, nq) ==
    IF calls = <<>> THEN [q |-> qq, grp |-> g, threw |-> FALSE]
    ELSE LET r == Apply(Head(calls), qq, g, nq)
         IN  IF r.threw THEN r ELSE callback(Tail(calls), r.q, r.grp, nq)

(* mutant: the callback run with the skip flag lifted, then put back *)
whenLiftingSkip(qq, g, nq, condition, calls) ==
    IF condition
    THEN [result |-> [callback(calls, [qq EXCEPT !._skipNext = FALSE], g, nq)
                        EXCEPT !.q._skipNext = qq._skipNext],
          invocations |-> 1, returned |-> "this"]
    ELSE [result |-> [q |-> qq, grp |-> g, threw |-> FALSE],
          invocations |-> 0, returned |-> "this"]

when(qq, g, nq, condition, calls) ==
    IF condition
    THEN [result |-> callback(calls, qq, g, nq), invocations |-> 1, returned |-> "this"]
    ELSE [result |-> [q |-> qq, grp |-> g, threw |-> FALSE],
          invocations |-> 0, returned |-> "this"]

WhenCall(condition, cb) ==
    [Call("when") EXCEPT !.flag = condition, !.callback = cb.calls, !.returns = cb.returns]

When(b, callbacks) ==
    /\ Within(b)
    /\ \E condition \in BOOLEAN, cb \in callbacks :
         LET r == when(q, grp, nested, condition, cb.calls)
         IN  /\ q' = r.result.q
             /\ grp' = r.result.grp
             /\ thrown' = r.result.threw
             /\ Record([WhenCall(condition, cb) EXCEPT !.invoked = r.invocations,
                                                       !.returned = r.returned])
             /\ UNCHANGED <<nested, rendered, clientQueries, cohortIn, cohortSql, cohortOut,
                            cache>>

(***************************************************************************)
(* SpecWhen: when() with callbacks of one or two calls, inside and outside *)
(* an if() ... endIf() block.                                              *)
(***************************************************************************)
WhenCond == Cond(Col("a"), "=", Num(1))

WhenCallbacks ==
    {[calls |-> <<ColumnsCall("select", <<Col("y")>>)>>, returns |-> "this"],
     [calls |-> <<CondCall("where", WhenCond)>>, returns |-> "other"],
     [calls |-> <<OrderByCall(Col("x"), "ASC")>>, returns |-> "this"],
     [calls |-> <<CondCall("andWhere", WhenCond)>>, returns |-> "undefined"],
     [calls |-> <<CondCall("where", WhenCond), LimitCall(5, <<>>)>>, returns |-> "this"]}

NextWhen ==
    \/ When(MaxWhenCalls, WhenCallbacks)
    \/ If(MaxWhenCalls)
    \/ EndIf(MaxWhenCalls)
    \/ Where(MaxWhenCalls, {WhenCond})
    \/ ToSQL(MaxWhenCalls)

SpecWhen == Init /\ [][NextWhen]_vars

(***************************************************************************)
(* The builder after the calls of a callback are made on it one after the  *)
(* other (Direct), and after each of them takes effect whatever the skip   *)
(* flag says, the flag being left as it was (Effective).                   *)
(***************************************************************************)
RECURSIVE Direct(_, _)
Direct(calls, qq) ==
    IF calls = <<>> THEN qq
    ELSE Direct(Tail(calls), Apply(Head(calls), qq, grp, nested).q)

RECURSIVE Effective(_, _)
Effective(calls, qq) ==
    IF calls = <<>> THEN qq
    ELSE Effective(Tail(calls),
                   [Apply(Head(calls), Clear(qq), grp, nested).q
                      EXCEPT !._skipNext = qq._skipNext])

(***************************************************************************)
(* C16 as claimed.  when(p, cb) with p false changes nothing and does not  *)
(* invoke cb; with p true it invokes cb once and returns the builder       *)
(* whatever cb returns; it leaves the skip flag alone, and every method    *)
(* called inside cb, select, where and orderBy included, takes effect.     *)
(***************************************************************************)
C16_WhenSymmetric ==
    [][(trace' # trace /\ last'.op = "when") =>
          /\ ~last'.flag => (q' = q /\ grp' = grp /\ last'.invoked = 0)
          /\ last'.flag => (last'.invoked = 1 /\ q' = Effective(last'.callback, q))
          /\ last'.returned = "this"
          /\ q'._skipNext = q._skipNext]_vars

(***************************************************************************)
(* C16 amended.  With p true the calls of cb act as they would when made   *)
(* on the builder directly at that point: while the skip flag is set,      *)
(* select, where and orderBy inside cb change nothing and the other        *)
(* methods take effect.                                                    *)
(***************************************************************************)
C16_WhenAsDirectCalls ==
    [][(trace' # trace /\ last'.op = "when") =>
          /\ ~last'.flag => (q' = q /\ grp' = grp /\ last'.invoked = 0)
          /\ last'.flag => (last'.invoked = 1 /\ q' = Direct(last'.callback, q))
          /\ last'.returned = "this"
          /\ q'._skipNext = q._skipNext
          /\ (last'.flag /\ ~q._skipNext) => q' = Effective(last'.callback, q)]_vars

(* when(true, select y) takes effect; after if(false), when(true, where, limit) *)
(* sets the limit only                                                          *)
C16_Witness ==
    /\ ops = <<"when", "if", "when">>
    /\ trace[1].flag /\ trace[1].invoked = 1
    /\ ~trace[2].flag
    /\ trace[3].flag /\ trace[3].invoked = 1 /\ trace[3].returns = "this"
    /\ Len(trace[3].callback) = 2
    /\ q._select = <<Col("y")>>
    /\ q._where = <<>>
    /\ q._limit = <<5>>
    /\ q._skipNext

(***************************************************************************)
(* C17 as claimed.  Once end() has been called on a group builder, no      *)
(* later call on that group builder (where, andWhere, orWhere or another   *)
(* end()) changes the parent's WHERE sequence.                             *)
(***************************************************************************)
C17_GroupSpent ==
    [][(trace' # trace /\ last'.op \in GroupOps /\ ~FirstEnd(trace)) =>
          q'._where = q._where]_vars

(***************************************************************************)
(* C18.  At every index where some cohort with a non-zero value has a sum  *)
(* above 0, the Weighted Average row's value lies between the smallest and *)
(* the largest value there among those cohorts; where every contributing   *)
(* cohort has sum 0 the value is 0.                                        *)
(***************************************************************************)
Weighing(k) == {r \in Contributors(k) : InputSum(r) > 0}

C18_AverageWithinValues ==
    (cohortOut.done /\ cohortIn.data # <<>>) =>
        \A k \in 1..(cohortIn.diffInterval + 1) :
            LET average == cohortOut.rows[1].values[k]
            IN  /\ Weighing(k) # {} =>
                      /\ \E r \in Weighing(k) : InputValue(r, k) <= average
                      /\ \E r \in Weighing(k) : average <= InputValue(r, k)
                /\ Weighing(k) = {} => average = 0

(* cohorts of 10 and 20 with 5 and 10 at index 0: (50 + 200) / 30 rounds to 8; *)
(* at index 1 the only contributing cohort has sum 0                           *)
C18_Witness ==
    /\ cohortOut.done
    /\ Len(cohortIn.data) = 2
    /\ InputSum(1) = 10 /\ InputValue(1, 1) = 5 /\ InputValue(1, 2) = 0
    /\ InputSum(2) = 20 /\ InputValue(2, 1) = 10 /\ InputValue(2, 2) = 0
    /\ cohortOut.rows[1].values = <<8, 0>>

(***************************************************************************)
(* One call of the function cacheable returns, for a wrapped function      *)
(* named name that resolves to result.  setex is reached by every miss,    *)
(* the test before it, result !== undefined || result !== null, being true *)
(* of every value.  What the store keeps when setex is handed undefined is *)
(* the client's affair: written is the text it keeps.                      *)
(***************************************************************************)
cacheable(store, name, args, result, written) ==
    LET key == cacheKey(name, args)
        cached == store[key]
        hit == cached # <<>> /\ cached[1] # "" /\ parse(cached[1]).ok
        text == stringify(result)
    IN  IF hit
        THEN [store |-> store,
              entry |-> [key |-> key, cached |-> cached, hit |-> TRUE, invoked |-> FALSE,
                         result |-> Undefined, wrote |-> <<>>,
                         returned |-> parse(cached[1]).value]]
        ELSE [store |-> [store EXCEPT ![key] = IF text = <<>> THEN <<written>> ELSE text],
              entry |-> [key |-> key, cached |-> cached, hit |-> FALSE, invoked |-> TRUE,
                         result |-> result, wrote |-> <<[key |-> key, value |-> text]>>,
                         returned |-> result]]

CacheableCall ==
    /\ Len(cache.log) < MaxCacheCalls
    /\ \E args \in CacheArgs, result \in CacheResults, written \in {"", "undefined"} :
         LET r == cacheable(cache.store, "fn", args, result, written)
         IN  cache' = [store |-> r.store, log |-> Append(cache.log, r.entry)]
    /\ UNCHANGED <<q, nested, grp, trace, thrown, rendered, clientQueries,
                   cohortIn, cohortSql, cohortOut>>

(* the expiry set by setex: a stored key goes away *)
CacheExpire ==
    /\ Len(cache.log) < MaxCacheCalls
    /\ \E key \in CacheKeys :
         /\ cache.store[key] # <<>>
         /\ cache' = [cache EXCEPT !.store[key] = <<>>]
    /\ UNCHANGED <<q, nested, grp, trace, thrown, rendered, clientQueries,
                   cohortIn, cohortSql, cohortOut>>

(***************************************************************************)
(* SpecCache: calls of a wrapped function over a store that may already    *)
(* hold, under a key, a text that parses or one that does not.             *)
(***************************************************************************)
StoredTexts == {<<>>, <<"7">>, <<"{">>}

InitCache ==
    /\ InitBuilder
    /\ cohortIn = NoRequest
    /\ cohortSql = NoStatement
    /\ cohortOut = [done |-> FALSE, rows |-> <<>>]
    /\ cache \in [store : [CacheKeys -> StoredTexts], log : {<<>>}]

NextCache ==
    \/ CacheableCall
    \/ CacheExpire

SpecCache == InitCache /\ [][NextCache]_vars

(***************************************************************************)
(* C19 as claimed.  After a miss the wrapper writes the wrapped function's *)
(* result under the call's key only when that result is neither undefined  *)
(* nor null; on a hit whose stored text parses it returns the stored value *)
(* without invoking the wrapped function and without writing.              *)
(***************************************************************************)
C19_CacheWrites ==
    \A i \in DOMAIN cache.log :
        LET e == cache.log[i]
        IN  /\ (~e.hit /\ e.wrote # <<>>) => e.result \notin {Undefined, Null}
            /\ (e.cached # <<>> /\ e.cached[1] # "" /\ parse(e.cached[1]).ok) =>
                  /\ e.hit
                  /\ ~e.invoked
                  /\ e.wrote = <<>>
                  /\ e.returned = parse(e.cached[1]).value

====
